---- MODULE Spec2Model ----
(***************************************************************************)
(* A model of tobodebug/timeit.py: the `timeit` command, its two samplers  *)
(* (_evaluate_func_speed, _evaluate_coro_speed), the sample-budget policy  *)
(* (_get_max_count) and the stdout suppressor (silence_stdout).            *)
(*                                                                         *)
(* Time is counted in ticks of half a second, so that every threshold of   *)
(* the source (1.0, 3.0, 5.0, 7.5, 10.0, 12.0 and the 15.0 s timeout) is a *)
(* whole number of ticks.  perf_counter() is the variable `clock`; only    *)
(* the callable itself takes time.                                         *)
(*                                                                         *)
(* The list `times` is kept run-length encoded, as a sequence of           *)
(* <<duration, repetitions>> pairs in invocation order: the encoding loses *)
(* nothing of the list and lets a run hold the 100000 samples the source   *)
(* allows.                                                                 *)
(***************************************************************************)
EXTENDS Integers, Sequences, FiniteSets

VARIABLES
    func,             \* the callable handed to timeit (the command's input)
    pc,               \* position of the sampler task
    times,            \* samples recorded so far (run-length encoded)
    time_passed,      \* sum of the samples recorded so far
    max_count,        \* the sampler's current ceiling
    clock,            \* time.perf_counter(), ticks since timeit began
    start,            \* perf_counter() taken at the start of the invocation
    stdout,           \* sys.stdout
    old_target,       \* silence_stdout's saved stream ("none" outside a scope)
    calls,            \* invocations of func started so far
    cancelRequested,  \* wait_for has called fut.cancel() on the sampler task
    exc,              \* the exception that ended the sampler task ("none")
    result,           \* the tuple the sampler returned (run-length encoded)
    outcome,          \* what timeit sent once wait_for was over
    arg,              \* the argument of a function applied on its own
    ret,              \* <<its result>>, <<>> while it has not been applied
    tasks             \* the suppressor scopes of two runs in one process

vars == <<func, pc, times, time_passed, max_count, clock, start, stdout,
          old_target, calls, cancelRequested, exc, result, outcome,
          arg, ret, tasks>>

----------------------------------------------------------------------------
(* Time scale and program constants *)

\* A duration given in tenths of a second, in ticks of half a second.
Ticks(tenths) == tenths \div 5

\* timeout=15.0 of asyncio.wait_for
Timeout == Ticks(150)

\* max_count = 100000
InitialMaxCount == 100000

\* Python's None, as _get_max_count returns it when no threshold is crossed;
\* `or` treats it like 0.
None == 0

----------------------------------------------------------------------------
(* Bounds and inputs *)

\* The callable's behaviour may differ over its first MaxScript - 1
\* invocations; from invocation MaxScript on it repeats its last behaviour.
MaxScript == 2

\* Durations of one invocation, in ticks: 0 s, 1 s, 2 s, 13 s.
Durations == {0, Ticks(10), Ticks(20), Ticks(130)}

\* What an invocation raises: asyncio.TimeoutError, any other Exception, or
\* a BaseException that is no Exception (SystemExit, KeyboardInterrupt).
Errors == {"TimeoutError", "Exception", "BaseException"}

Returning == [act : {"return"}, dur : Durations, err : {"none"}]

Raising == [act : {"raise"}, dur : Durations, err : Errors]

Hanging == [act : {"hang"}, dur : {0}, err : {"none"}]

Behaviours == Returning \cup Raising \cup Hanging

\* Scripts of exactly n behaviours: only the last may raise or hang (nothing
\* is invoked after it), and the last differs from the one before it (a
\* repeated last behaviour is the shorter script).
ScriptsOfLen(n) ==
    { s \in [1..n -> Behaviours] :
        /\ \A i \in 1..(n - 1) : s[i] \in Returning
        /\ n > 1 => s[n] # s[n - 1] }

Scripts == UNION { ScriptsOfLen(n) : n \in 1..MaxScript }

\* A plain function never suspends; a coroutine function may or may not
\* reach a real suspension point when awaited.
Funcs ==
    { f \in [kind : {"func", "coro"}, suspends : BOOLEAN, script : Scripts] :
        f.kind = "func" => ~f.suspends }

\* The behaviour of the k-th invocation (k >= 1) of f.
BehaviourOf(f, k) ==
    IF k < Len(f.script) THEN f.script[k] ELSE f.script[Len(f.script)]

\* f returns at once on every invocation from some point on: its run takes
\* as many invocations as the ceiling allows.
Instantaneous(f) ==
    LET b == f.script[Len(f.script)] IN b.act = "return" /\ b.dur = 0

\* Every invocation of f returns.
AlwaysReturns(f) == \A i \in 1..Len(f.script) : f.script[i].act = "return"

----------------------------------------------------------------------------
(* Lists of samples, run-length encoded *)

RECURSIVE RLen(_)
\* len(times)
RLen(r) == IF r = <<>> THEN 0 ELSE r[Len(r)][2] + RLen(SubSeq(r, 1, Len(r) - 1))

RECURSIVE RSum(_)
\* sum(times)
RSum(r) ==
    IF r = <<>> THEN 0
    ELSE r[Len(r)][1] * r[Len(r)][2] + RSum(SubSeq(r, 1, Len(r) - 1))

\* times.append(d)
RAppend(r, d) ==
    IF r # <<>> /\ r[Len(r)][1] = d
    THEN [r EXCEPT ![Len(r)] = <<d, @[2] + 1>>]
    ELSE Append(r, <<d, 1>>)

\* How many times the value v occurs in the list.
RCount(r, v) == RSum([i \in 1..Len(r) |-> <<IF r[i][1] = v THEN 1 ELSE 0, r[i][2]>>])

RValues(r) == { r[i][1] : i \in 1..Len(r) }

RECURSIVE SortedRuns(_, _)
SortedRuns(r, vs) ==
    IF vs = {} THEN <<>>
    ELSE LET m == CHOOSE v \in vs : \A w \in vs : v <= w
         IN  <<<<m, RCount(r, m)>>>> \o SortedRuns(r, vs \ {m})

\* Variant: the samples are returned in invocation order.
Sorted_Unsorted(r) == r

\* tuple(sorted(times))
Sorted(r) == SortedRuns(r, RValues(r))

RECURSIVE RNth(_, _)
\* times[i - 1], for 1 <= i <= len(times)
RNth(r, i) == IF i <= r[1][2] THEN r[1][1] ELSE RNth(Tail(r), i - r[1][2])

\* times[:k]
RTake(r, k) ==
    [i \in 1..(IF RLen(r) < k THEN RLen(r) ELSE k) |-> RNth(r, i)]

----------------------------------------------------------------------------
(* The budget policy *)

\* Variant: the thresholds compared with >= instead of >.
_get_max_count_Inclusive(t) ==
    IF t >= Ticks(120) THEN 1
    ELSE IF t >= Ticks(100) THEN 10
    ELSE IF t >= Ticks(75) THEN 100
    ELSE IF t >= Ticks(50) THEN 500
    ELSE IF t >= Ticks(30) THEN 1000
    ELSE IF t >= Ticks(10) THEN 10000
    ELSE None

\* Variant: the ceilings of the 10.0 s and 7.5 s rules exchanged.
_get_max_count_Swapped(t) ==
    IF t > Ticks(120) THEN 1
    ELSE IF t > Ticks(100) THEN 100
    ELSE IF t > Ticks(75) THEN 10
    ELSE IF t > Ticks(50) THEN 500
    ELSE IF t > Ticks(30) THEN 1000
    ELSE IF t > Ticks(10) THEN 10000
    ELSE None

_get_max_count(t) ==
    IF t > Ticks(120) THEN 1
    ELSE IF t > Ticks(100) THEN 10
    ELSE IF t > Ticks(75) THEN 100
    ELSE IF t > Ticks(50) THEN 500
    ELSE IF t > Ticks(30) THEN 1000
    ELSE IF t > Ticks(10) THEN 10000
    ELSE None

\* Variant: no `or max_count`, the policy's None is adopted as it is.
PyOr_NoFallback(a, b) == a

\* Python's `a or b` on integers and None.
PyOr(a, b) == IF a = None THEN b ELSE a

\* max_count = _get_max_count(time_passed) or max_count
NextMaxCount(t, m) == PyOr(_get_max_count(t), m)

----------------------------------------------------------------------------
(* The duration formatter *)

\* Character strings are sequences of one-character strings; a Decimal is
\* [int, exp], its coefficient's digits and its exponent, as in Python's
\* decimal module (the sign is always +).

\* decimal.Context(prec=8)
Prec == 8

DigitChars == <<"0", "1", "2", "3", "4", "5", "6", "7", "8", "9">>

DigitVal(c) == CHOOSE d \in 0..9 : DigitChars[d + 1] = c

RECURSIVE NatStr(_)
\* str(n) for a natural number n
NatStr(n) ==
    IF n < 10 THEN <<DigitChars[n + 1]>>
    ELSE NatStr(n \div 10) \o <<DigitChars[(n % 10) + 1]>>

RECURSIVE StrNat(_)
\* int(s) for a string of digits
StrNat(s) ==
    IF s = <<>> THEN 0
    ELSE 10 * StrNat(SubSeq(s, 1, Len(s) - 1)) + DigitVal(s[Len(s)])

Zeros(n) == [i \in 1..n |-> "0"]

\* Rounding to the context's precision, ROUND_HALF_EVEN.
Round(d) ==
    LET n == Len(d.int)
    IN  IF n <= Prec THEN d
        ELSE LET head == SubSeq(d.int, 1, Prec)
                 first == DigitVal(d.int[Prec + 1])
                 rest == SubSeq(d.int, Prec + 2, n)
                 up == \/ first > 5
                       \/ /\ first = 5
                          /\ \/ rest # Zeros(Len(rest))
                             \/ DigitVal(head[Prec]) % 2 = 1
                 q == NatStr(StrNat(head) + (IF up THEN 1 ELSE 0))
             IN  IF Len(q) > Prec
                 THEN [int |-> SubSeq(q, 1, Prec), exp |-> d.exp + (n - Prec) + 1]
                 ELSE [int |-> q, exp |-> d.exp + (n - Prec)]

RECURSIVE StripZeros(_)
StripZeros(d) ==
    IF Len(d.int) > 1 /\ d.int[Len(d.int)] = "0"
    THEN StripZeros([int |-> SubSeq(d.int, 1, Len(d.int) - 1), exp |-> d.exp + 1])
    ELSE d

\* Decimal.normalize() in the module's context
Normalize(d) ==
    LET f == Round(d)
    IN  IF f.int = Zeros(Len(f.int)) THEN [int |-> <<"0">>, exp |-> 0]
        ELSE StripZeros(f)

\* Digits of the coefficient left of the decimal point of the value.
LeftDigits(d) == d.exp + Len(d.int)

\* Digits of the coefficient left of the decimal point of the mantissa
\* that is written.
DotPlace(d, eng) ==
    IF d.exp <= 0 /\ LeftDigits(d) > -6 THEN LeftDigits(d)
    ELSE IF ~eng THEN 1
    ELSE IF d.int = <<"0">> THEN ((LeftDigits(d) + 1) % 3) - 1
    ELSE ((LeftDigits(d) - 1) % 3) + 1

\* The mantissa written for d.
Mantissa(d, eng) ==
    LET dp == DotPlace(d, eng)
    IN  IF dp <= 0 THEN <<"0", ".">> \o Zeros(-dp) \o d.int
        ELSE IF dp >= Len(d.int) THEN d.int \o Zeros(dp - Len(d.int))
        ELSE SubSeq(d.int, 1, dp) \o <<".">> \o SubSeq(d.int, dp + 1, Len(d.int))

\* The exponent written for d, 0 when none is written.
Exponent(d, eng) == LeftDigits(d) - DotPlace(d, eng)

\* "E%+d" % e
ExponentStr(e) ==
    IF e = 0 THEN <<>>
    ELSE IF e > 0 THEN <<"E", "+">> \o NatStr(e)
    ELSE <<"E", "-">> \o NatStr(-e)

\* str(d)
Str(d) == Mantissa(d, FALSE) \o ExponentStr(Exponent(d, FALSE))

\* d.to_eng_string()
to_eng_string(d) == Mantissa(d, TRUE) \o ExponentStr(Exponent(d, TRUE))

\* sub in s, for a two-character sub
Contains(s, sub) ==
    \E i \in 1..(Len(s) - 1) : s[i] = sub[1] /\ s[i + 1] = sub[2]

units == << <<"s">>, <<"m", "s">>, <<"u", "s">>, <<"n", "s">>, <<"p", "s">> >>

\* Variant: the index taken from the whole exponent, not from its last digit.
UnitIndex_WholeExponent(dec) ==
    LET e == CHOOSE i \in 1..Len(dec) : dec[i] = "E"
    IN  StrNat(SubSeq(dec, e + 2, Len(dec))) \div 3

\* int(dec[-1]) // 3
UnitIndex(dec) == DigitVal(dec[Len(dec)]) \div 3

\* units[index], or the IndexError of an index past the tuple.
Unit(index) ==
    IF index + 1 \in DOMAIN units THEN units[index + 1] ELSE <<"IndexError">>

\* _get_time_spec(delay), for the float delay whose exact decimal value is
\* d: the string returned, or <<"IndexError">> if the lookup raises.
_get_time_spec(d) ==
    LET dec == to_eng_string(Normalize(d))
        negative == Contains(dec, <<"E", "-">>)
        index == IF negative THEN UnitIndex(dec) ELSE 0
        text == IF negative THEN SubSeq(dec, 1, Len(dec) - 3)
                ELSE IF Contains(dec, <<"E", "+">>) THEN Str(d)
                ELSE dec
    IN  IF Unit(index) = <<"IndexError">> THEN <<"IndexError">>
        ELSE text \o Unit(index)

----------------------------------------------------------------------------
(* The stdout suppressor *)

\* sys.stdout inside the scope: the handle opened on os.devnull.
new_target == "devnull"

\* sys.stdout once the scope is left on the given path ("return", "raise",
\* "cancel"): the finally clause runs on all of them.
\* Variant: no try/finally, the stream is restored on a normal exit only.
silence_exit_NoFinally(path, saved, current) ==
    IF path = "return" THEN saved ELSE current

silence_exit(path, saved, current) == saved

----------------------------------------------------------------------------
(* State *)

\* No function is being applied on its own.
NoArg == [fn |-> "none", a |-> 0, b |-> 0]

\* No second run shares the process.
NoTasks == <<>>

NoOutcome ==
    [tag |-> "none", loops |-> 0, total |-> 0, avg |-> <<>>, best |-> <<>>,
     text |-> ""]

\* The state in which timeit is entered with the callable f.
Entered(f) ==
    /\ func = f
    /\ pc = "idle"
    /\ times = <<>>
    /\ time_passed = 0
    /\ max_count = 0
    /\ clock = 0
    /\ start = 0
    /\ stdout = "original"
    /\ old_target = "none"
    /\ calls = 0
    /\ cancelRequested = FALSE
    /\ exc = "none"
    /\ result = <<>>
    /\ outcome = NoOutcome
    /\ arg = NoArg
    /\ ret = <<>>
    /\ tasks = NoTasks

\* Callables whose steady invocation takes a second or more, raises or hangs.
Init == \E f \in Funcs : ~Instantaneous(f) /\ Entered(f)

\* Every callable, those that return at once included.
InitFull == \E f \in Funcs : Entered(f)

\* The sampler is suspended at `await func()` and the event loop is free.
Suspended == pc = "calling" /\ func.kind = "coro" /\ func.suspends

\* timeit: picks the sampler and starts it under wait_for; the sampler
\* initialises its locals.
TimeitStart ==
    /\ pc = "idle"
    /\ pc' = "loop"
    /\ times' = <<>>
    /\ time_passed' = 0
    /\ max_count' = InitialMaxCount
    /\ UNCHANGED <<arg, ret, tasks, func, clock, start, stdout, old_target, calls,
                   cancelRequested, exc, result, outcome>>

\* Variant: the comparison reversed.
LoopTest_Reversed(n, m) == m < n

\* The loop test.
LoopTest(n, m) == n < m

\* Variant: the invocation is started without being awaited, so the loop
\* goes on while it is in flight.
StartInvocation_NotAwaited ==
    /\ pc \in {"loop", "calling"}
    /\ LoopTest(RLen(times), max_count)
    /\ max_count' = NextMaxCount(time_passed, max_count)
    /\ old_target' = stdout
    /\ stdout' = new_target
    /\ start' = clock
    /\ calls' = calls + 1
    /\ pc' = "calling"
    /\ UNCHANGED <<arg, ret, tasks, func, times, time_passed, clock, cancelRequested, exc,
                   result, outcome>>

\* The loop test holds: the ceiling is recomputed, the suppressor scope is
\* entered, the start time is taken and func is invoked.
StartInvocation ==
    /\ pc = "loop"
    /\ LoopTest(RLen(times), max_count)
    /\ max_count' = NextMaxCount(time_passed, max_count)
    /\ old_target' = stdout
    /\ stdout' = new_target
    /\ start' = clock
    /\ calls' = calls + 1
    /\ pc' = "calling"
    /\ UNCHANGED <<arg, ret, tasks, func, times, time_passed, clock, cancelRequested, exc,
                   result, outcome>>

\* Variant: the invocation is shielded from a pending cancellation.
MayEnd_Shielded(b) ==
    Suspended => start + b.dur <= Timeout

\* An invocation that suspends can end only while the deadline has not
\* passed and no cancellation is pending; one that does not suspend keeps
\* the event loop and ends whenever it ends.
MayEnd(b) ==
    Suspended => (~cancelRequested /\ start + b.dur <= Timeout)

\* Variant: the sample is added to time_passed but not appended to times.
FinishInvocation_NoAppend ==
    /\ pc = "calling"
    /\ LET b == BehaviourOf(func, calls)
           _time == (start + b.dur) - start
       IN  /\ b.act = "return"
           /\ MayEnd(b)
           /\ clock' = start + b.dur
           /\ time_passed' = time_passed + _time
    /\ stdout' = silence_exit("return", old_target, stdout)
    /\ old_target' = "none"
    /\ pc' = "loop"
    /\ UNCHANGED <<arg, ret, tasks, func, times, max_count, start, calls, cancelRequested,
                   exc, result, outcome>>

\* func returns: the scope is left, the sample recorded.
FinishInvocation ==
    /\ pc = "calling"
    /\ LET b == BehaviourOf(func, calls)
           _time == (start + b.dur) - start
       IN  /\ b.act = "return"
           /\ MayEnd(b)
           /\ clock' = start + b.dur
           /\ times' = RAppend(times, _time)
           /\ time_passed' = time_passed + _time
    /\ stdout' = silence_exit("return", old_target, stdout)
    /\ old_target' = "none"
    /\ pc' = "loop"
    /\ UNCHANGED <<arg, ret, tasks, func, max_count, start, calls, cancelRequested, exc,
                   result, outcome>>

\* func raises: the scope is left and the error ends the sampler task.
RaiseInvocation ==
    /\ pc = "calling"
    /\ LET b == BehaviourOf(func, calls)
       IN  /\ b.act = "raise"
           /\ MayEnd(b)
           /\ clock' = start + b.dur
           /\ exc' = b.err
    /\ stdout' = silence_exit("raise", old_target, stdout)
    /\ old_target' = "none"
    /\ pc' = "raised"
    /\ UNCHANGED <<arg, ret, tasks, func, times, time_passed, max_count, start, calls,
                   cancelRequested, result, outcome>>

\* The loop test fails: the sampler returns its samples, sorted.
SamplerReturn ==
    /\ pc = "loop"
    /\ ~LoopTest(RLen(times), max_count)
    /\ result' = Sorted(times)
    /\ pc' = "returned"
    /\ UNCHANGED <<arg, ret, tasks, func, times, time_passed, max_count, clock, start, stdout,
                   old_target, calls, cancelRequested, exc, outcome>>

\* wait_for's deadline comes while the sampler task is suspended and not
\* done: wait_for cancels the task.
WatchdogFire ==
    /\ Suspended
    /\ ~cancelRequested
    /\ LET b == BehaviourOf(func, calls)
       IN  b.act = "hang" \/ start + b.dur >= Timeout
    /\ clock' = Timeout
    /\ cancelRequested' = TRUE
    /\ UNCHANGED <<arg, ret, tasks, func, pc, times, time_passed, max_count, start, stdout,
                   old_target, calls, exc, result, outcome>>

\* CancelledError is thrown into the task at `await func()`: the scope is
\* left and the task ends cancelled.
DeliverCancel ==
    /\ Suspended
    /\ cancelRequested
    /\ exc' = "CancelledError"
    /\ stdout' = silence_exit("cancel", old_target, stdout)
    /\ old_target' = "none"
    /\ pc' = "cancelled"
    /\ UNCHANGED <<arg, ret, tasks, func, times, time_passed, max_count, clock, start, calls,
                   cancelRequested, result, outcome>>

\* The except clause of timeit that handles an error of the given kind
\* leaving wait_for.
Handler(err) ==
    IF err = "TimeoutError" THEN "TimedOut"
    ELSE IF err = "Exception" THEN "Failed"
    ELSE "Propagated"

\* A sample of t ticks, as the Decimal of its float in seconds.
SecondsOf(t) == [int |-> NatStr(5 * t), exp |-> -1]

RECURSIVE FractionDigits(_, _, _)
\* The first n digits after the decimal point of r / den, r < den, followed
\* by a 1 if digits other than 0 remain.
FractionDigits(r, den, n) ==
    IF r = 0 THEN <<>>
    ELSE IF n = 0 THEN <<"1">>
    ELSE <<DigitChars[((10 * r) \div den) + 1]>>
         \o FractionDigits((10 * r) % den, den, n - 1)

RECURSIVE StripLeadingZeros(_)
StripLeadingZeros(s) ==
    IF Len(s) > 1 /\ s[1] = "0" THEN StripLeadingZeros(Tail(s)) ELSE s

\* The Decimal of the float num / den (seconds for num ticks over den / 2
\* samples), to two digits more than the precision it is rounded to.
RatioDecimal(num, den) ==
    LET frac == FractionDigits(num % den, den, Prec + 8)
    IN  [int |-> StripLeadingZeros(NatStr(num \div den) \o frac),
         exp |-> -Len(frac)]

\* Variant: the top-3 line is written from 3 samples on.
Report_FromThree(times_) ==
    LET count == RLen(times_)
        total == RSum(times_)
    IN  IF count = 0 THEN [NoOutcome EXCEPT !.tag = "Propagated"]
        ELSE [tag |-> "Completed", loops |-> count, total |-> total,
              avg |-> _get_time_spec(RatioDecimal(total, 2 * count)),
              best |-> IF count < 3 THEN <<>>
                       ELSE [i \in 1..3 |->
                               _get_time_spec(SecondsOf(RTake(times_, 3)[i]))],
              text |-> ""]

\* The else branch of timeit for the tuple the sampler returned: the
\* message sent, or the ZeroDivisionError that leaves timeit.
Report(times_) ==
    LET count == RLen(times_)
        total == RSum(times_)
    IN  IF count = 0 THEN [NoOutcome EXCEPT !.tag = "Propagated"]
        ELSE [tag |-> "Completed", loops |-> count, total |-> total,
              avg |-> _get_time_spec(RatioDecimal(total, 2 * count)),
              best |-> IF count < 4 THEN <<>>
                       ELSE [i \in 1..3 |->
                               _get_time_spec(SecondsOf(RTake(times_, 3)[i]))],
              text |-> ""]

\* wait_for returns the sampler's tuple: the else branch sends the report.
ReportCompleted ==
    /\ pc = "returned"
    /\ outcome.tag = "none"
    /\ outcome' = Report(result)
    /\ UNCHANGED <<arg, ret, tasks, func, pc, times, time_passed, max_count, clock, start,
                   stdout, old_target, calls, cancelRequested, exc, result>>

\* wait_for re-raises the error that ended the sampler.
ReportError ==
    /\ pc = "raised"
    /\ outcome.tag = "none"
    /\ outcome' = [NoOutcome EXCEPT
                     !.tag = Handler(exc),
                     !.text = IF Handler(exc) = "Failed" THEN exc ELSE ""]
    /\ UNCHANGED <<arg, ret, tasks, func, pc, times, time_passed, max_count, clock, start,
                   stdout, old_target, calls, cancelRequested, exc, result>>

\* wait_for, having cancelled the task, raises asyncio.TimeoutError.
ReportTimedOut ==
    /\ cancelRequested
    /\ outcome.tag = "none"
    /\ outcome' = [NoOutcome EXCEPT !.tag = Handler("TimeoutError")]
    /\ UNCHANGED <<arg, ret, tasks, func, pc, times, time_passed, max_count, clock, start,
                   stdout, old_target, calls, cancelRequested, exc, result>>

Next ==
    \/ TimeitStart
    \/ StartInvocation
    \/ FinishInvocation
    \/ RaiseInvocation
    \/ SamplerReturn
    \/ WatchdogFire
    \/ DeliverCancel
    \/ ReportCompleted
    \/ ReportError
    \/ ReportTimedOut

Spec == Init /\ [][Next]_vars

SpecFull == InitFull /\ [][Next]_vars

----------------------------------------------------------------------------
(* The pure functions, applied on their own *)

\* No run of timeit is in progress.
NoFunc == [kind |-> "func", suspends |-> FALSE, script |-> <<>>]

Parked ==
    /\ func = NoFunc
    /\ pc = "off"
    /\ times = <<>>
    /\ time_passed = 0
    /\ max_count = 0
    /\ clock = 0
    /\ start = 0
    /\ stdout = "original"
    /\ old_target = "none"
    /\ calls = 0
    /\ cancelRequested = FALSE
    /\ exc = "none"
    /\ result = <<>>
    /\ outcome = NoOutcome

\* Elapsed times, in ticks, the policy is applied to: 0 s to 15 s.
MaxElapsed == 30

\* The values max_count can hold when the policy is consulted.
CeilingValues ==
    {InitialMaxCount} \cup ({ _get_max_count(t) : t \in 0..MaxElapsed } \ {None})

PolicyArgs == [fn : {"policy"}, a : 0..MaxElapsed, b : CeilingValues]

\* max_count = _get_max_count(time_passed) or max_count, for the elapsed
\* time arg.a and the previous ceiling arg.b.
ApplyPolicy ==
    /\ arg.fn = "policy"
    /\ ret = <<>>
    /\ ret' = <<NextMaxCount(arg.a, arg.b)>>
    /\ UNCHANGED <<arg, tasks, func, pc, times, time_passed, max_count, clock,
                   start, stdout, old_target, calls, cancelRequested, exc,
                   result, outcome>>

\* Durations the formatter is applied to: the float whose exact decimal
\* value is a * 10^b, down to 10^-MaxNegExp seconds.
MaxNegExp == 20

FormatCoefs == {0, 1, 15, 150, 1500, 12345, 123456785, 999999995}

FormatArgs == [fn : {"format"}, a : FormatCoefs, b : (-MaxNegExp)..0]

\* decimal.Decimal(delay)
DecimalOf(x) == [int |-> NatStr(x.a), exp |-> x.b]

ApplyFormat ==
    /\ arg.fn = "format"
    /\ ret = <<>>
    /\ ret' = <<_get_time_spec(DecimalOf(arg))>>
    /\ UNCHANGED <<arg, tasks, func, pc, times, time_passed, max_count, clock,
                   start, stdout, old_target, calls, cancelRequested, exc,
                   result, outcome>>

InitPure ==
    /\ Parked
    /\ arg \in PolicyArgs \cup FormatArgs
    /\ ret = <<>>
    /\ tasks = NoTasks

NextPure ==
    \/ ApplyPolicy
    \/ ApplyFormat

SpecPure == InitPure /\ [][NextPure]_vars

-----------------------------------------------------------------------------
\* Two runs of _evaluate_coro_speed as tasks of one event loop.  They share
\* sys.stdout; each has its own silence_stdout frame.  A task gives up the
\* loop only at "await func()", inside the scope.

MaxRunCeiling == 2

Runs == {1, 2}

\* Everything but sys.stdout and the two tasks.
runVars == <<func, pc, times, time_passed, max_count, clock, start,
             old_target, calls, cancelRequested, exc, result, outcome,
             arg, ret>>

InitTwoRuns ==
    /\ Parked
    /\ arg = NoArg
    /\ ret = <<>>
    /\ tasks \in [Runs -> [pc : {"loop"}, old_target : {"none"}, count : {0},
                           ceiling : 1..MaxRunCeiling]]

\* "while len(times) < max_count" holds: _time_coro enters silence_stdout,
\* which saves the current sys.stdout and installs its own stream; then
\* func() suspends and the other task may run.
RunEnter(r) ==
    /\ tasks[r].pc = "loop"
    /\ tasks[r].count < tasks[r].ceiling
    /\ tasks' = [tasks EXCEPT ![r].pc = "awaiting", ![r].old_target = stdout]
    /\ stdout' = new_target
    /\ UNCHANGED runVars

\* The awaited invocation returns, raises, or the task is cancelled at the
\* await: silence_stdout's finally runs in each case.
RunResume(r, path) ==
    /\ tasks[r].pc = "awaiting"
    /\ stdout' = silence_exit(path, tasks[r].old_target, stdout)
    /\ tasks' = [tasks EXCEPT
                   ![r].pc = IF path = "return" THEN "loop" ELSE "ended",
                   ![r].old_target = "none",
                   ![r].count = IF path = "return" THEN @ + 1 ELSE @]
    /\ UNCHANGED runVars

\* The loop test fails: the run returns its samples.
RunReturn(r) ==
    /\ tasks[r].pc = "loop"
    /\ tasks[r].count >= tasks[r].ceiling
    /\ tasks' = [tasks EXCEPT ![r].pc = "ended"]
    /\ UNCHANGED <<stdout, runVars>>

NextTwoRuns ==
    \/ \E r \in Runs : RunEnter(r)
    \/ \E r \in Runs, path \in {"return", "raise", "cancel"} : RunResume(r, path)
    \/ \E r \in Runs : RunReturn(r)

SpecTwoRuns == InitTwoRuns /\ [][NextTwoRuns]_vars

----------------------------------------------------------------------------
(* Claims *)

\* The sampler task is not over.
SamplerRunning == pc \in {"loop", "calling"}

\* C1: if the 15.0 s deadline elapses before the sampler has returned, the
\* run's outcome is TimedOut, never Completed, for the synchronous and for
\* the suspending sampler alike: a sampler that returns only after the
\* deadline does not make the run Completed.
C1_DeadlineElapsedYieldsTimedOut ==
    (pc = "returned" /\ clock > Timeout /\ outcome.tag # "none")
        => outcome.tag = "TimedOut"

\* C2: the outcome TimedOut is produced only if the deadline elapsed while
\* the sampler was still running, that is only after wait_for cancelled it.
C2_TimedOutOnlyByDeadline ==
    outcome.tag = "TimedOut" => cancelRequested

\* The ceiling the policy gives for an elapsed time, 100000 while no
\* threshold has been crossed.
PolicyCeiling(t) == PyOr(_get_max_count(t), InitialMaxCount)

\* C3: whenever an invocation is started, the number of samples already
\* recorded is strictly less than the ceiling the policy gives for the
\* cumulative elapsed time of the samples recorded so far.
C3_InvocationUnderPolicyCeiling ==
    pc = "calling" => RLen(times) < PolicyCeiling(time_passed)

\* C4: if the first invocation takes longer than 12 s and the run is not
\* cancelled, the callable is invoked exactly once and the sampler returns
\* exactly one sample.
C4_SlowFirstInvocationRunsOnce ==
    (times # <<>> /\ times[1][1] > Ticks(120) /\ ~cancelRequested)
        => /\ calls = 1
           /\ pc = "returned" => RLen(result) = 1

\* A step of the sampler task or of the watchdog on it.
SamplerStep ==
    \/ StartInvocation
    \/ FinishInvocation
    \/ SamplerReturn
    \/ WatchdogFire
    \/ DeliverCancel

\* A measure of the work the sampler has left: zero once it is over.
Rank ==
    IF SamplerRunning
    THEN 3 * (InitialMaxCount - RLen(times))
         + (IF pc = "loop" THEN 3 ELSE IF ~cancelRequested THEN 2 ELSE 1)
    ELSE 0

\* C5: provided every invocation of the callable returns, the sampling loop
\* terminates, after at least 1 and at most 100000 invocations: while the
\* sampler runs a step of it is possible, every such step lowers a measure
\* that never goes below zero, and the invocations stay within the bounds.
C5_LoopTerminates ==
    /\ [](AlwaysReturns(func) =>
            /\ calls <= InitialMaxCount
            /\ Rank >= 0
            /\ SamplerRunning => ENABLED SamplerStep
            /\ pc = "returned" => calls >= 1 /\ calls = RLen(result))
    /\ [][(AlwaysReturns(func) /\ SamplerRunning) =>
            (Rank' < Rank \/ UNCHANGED <<pc, times, cancelRequested>>)]_vars

C5_Witness ==
    pc = "returned" /\ AlwaysReturns(func) /\ calls = InitialMaxCount

\* C6: if an invocation raises, the run starts no further invocation, its
\* outcome is Failed carrying the description of that error, and no
\* statistics are reported.
C6_RaiseYieldsFailed ==
    (pc = "raised" /\ outcome.tag # "none")
        => /\ outcome.tag = "Failed"
           /\ outcome.text = exc
           /\ outcome.loops = 0 /\ outcome.best = <<>>

C8_OneInvocationAtATime ==
    [][calls' # calls =>
         /\ calls' = calls + 1
         /\ pc = "loop"
         /\ RLen(times) = calls]_vars

C8_Witness ==
    Suspended /\ calls >= 3 /\ RLen(times) = calls - 1

\* C9: sys.stdout is the discard sink throughout every invocation and the
\* original stream whenever no invocation is in progress, after a normal
\* return, after the callable raised and after a cancellation alike.
C9_StdoutSuppressedAndRestored ==
    /\ pc = "calling" => stdout = new_target
    /\ pc # "calling" => stdout = "original"

C9_Witness ==
    pc = "cancelled" /\ exc = "CancelledError" /\ stdout = "original"

\* The callable returns after 2 seconds on every invocation.
TwoSecondsPerCall(f) ==
    f.script = <<[act |-> "return", dur |-> Ticks(20), err |-> "none"]>>

RECURSIVE PrefixSum(_, _)
\* sum(times[:i])
PrefixSum(r, i) == IF i = 0 THEN 0 ELSE RNth(r, i) + PrefixSum(r, i - 1)

\* The i-th sample is the first to take the cumulative elapsed time above
\* the limit.
FirstAbove(r, i, limit) ==
    PrefixSum(r, i) > limit /\ PrefixSum(r, i - 1) <= limit

\* C10: for a callable that takes 2 seconds per call, a run that is not
\* cancelled ends with exactly one invocation after the sample that first
\* takes the cumulative elapsed time above 12.0 s, and returns at most 10
\* samples.
C10_OneInvocationPastTwelveSeconds ==
    (pc = "returned" /\ TwoSecondsPerCall(func))
        => /\ \E i \in 1..RLen(times) :
                FirstAbove(times, i, Ticks(120)) /\ calls = i + 1
           /\ RLen(result) = calls
           /\ RLen(result) <= 10

C10_Witness ==
    pc = "returned" /\ TwoSecondsPerCall(func) /\ time_passed > Ticks(120)

\* C11: if the cumulative elapsed time of a run never exceeds 1.0 s, the
\* sampler performs exactly 100000 invocations and returns exactly 100000
\* samples.
C11_FastRunTakesAllSamples ==
    (pc = "returned" /\ time_passed <= Ticks(10))
        => calls = InitialMaxCount /\ RLen(result) = InitialMaxCount

C11_Witness ==
    pc = "returned" /\ time_passed = Ticks(10) /\ calls = InitialMaxCount

\* The values the ceiling may take.
Ceilings == {InitialMaxCount, 10000, 1000, 500, 100, 10, 1}

\* C13: throughout a run the ceiling max_count never increases from one
\* loop iteration to the next and is always one of 100000, 10000, 1000,
\* 500, 100, 10, 1, never zero or absent.
C13_CeilingNeverIncreases ==
    /\ [](pc # "idle" => max_count \in Ceilings)
    /\ [][pc # "idle" => max_count' <= max_count]_vars

C13_Witness ==
    pc = "calling" /\ max_count = 10 /\ calls >= 7

\* C14: the tuple a sampler returns is sorted ascending and is a
\* permutation of the durations recorded in invocation order: as long as
\* the number of completed invocations, every duration as often as recorded.
C14_ResultSortedPermutation ==
    pc = "returned"
        => /\ RLen(result) = calls
           /\ \A i \in DOMAIN result : result[i][2] > 0
           /\ \A i, j \in DOMAIN result : i < j => result[i][1] <= result[j][1]
           /\ \A v \in RValues(times) \cup RValues(result) :
                RCount(result, v) = RCount(times, v)

C14_Witness ==
    pc = "returned" /\ Len(times) >= 2 /\ times[1][1] > times[2][1]

\* C19: every Completed outcome carries at least one sample, so the
\* average never divides by zero: the sampler never returns an empty tuple.
C19_CompletedHasSamples ==
    /\ pc = "returned" => RLen(result) >= 1
    /\ outcome.tag = "Completed" => outcome.loops >= 1

C19_Witness ==
    outcome.tag = "Completed" /\ outcome.loops = 2

\* The ceiling the claim gives for the elapsed time t and the previous
\* ceiling m.
TableCeiling(t, m) ==
    IF t > Ticks(120) THEN 1
    ELSE IF Ticks(100) < t /\ t <= Ticks(120) THEN 10
    ELSE IF Ticks(75) < t /\ t <= Ticks(100) THEN 100
    ELSE IF Ticks(50) < t /\ t <= Ticks(75) THEN 500
    ELSE IF Ticks(30) < t /\ t <= Ticks(50) THEN 1000
    ELSE IF Ticks(10) < t /\ t <= Ticks(30) THEN 10000
    ELSE m

\* C12: for every elapsed time t >= 0 the ceiling the loop adopts,
\* `_get_max_count(t) or max_count`, is 1 if t > 12.0; 10 if 10.0 < t <=
\* 12.0; 100 if 7.5 < t <= 10.0; 500 if 5.0 < t <= 7.5; 1000 if 3.0 < t <=
\* 5.0; 10000 if 1.0 < t <= 3.0; and the previous ceiling if t <= 1.0.
C12_PolicyTable ==
    (arg.fn = "policy" /\ ret # <<>>) => ret[1] = TableCeiling(arg.a, arg.b)

C12_Witness ==
    arg.fn = "policy" /\ arg.a = Ticks(75) /\ ret = <<500>>

\* The unit the claim gives for a written exponent.
UnitFor(e) ==
    IF e = 0 THEN <<"s">>
    ELSE IF e = -3 THEN <<"m", "s">>
    ELSE IF e = -6 THEN <<"u", "s">>
    ELSE IF e = -9 THEN <<"n", "s">>
    ELSE <<"p", "s">>

\* C16: for every duration whose engineering-notation rendering has the
\* exponent 0, -3, -6, -9 or -12, the formatter returns the mantissa,
\* without any exponent marker, followed by the unit s, ms, us, ns or ps.
C16_UnitMatchesExponent ==
    (arg.fn = "format" /\ ret # <<>>) =>
        LET d == Normalize(DecimalOf(arg))
            e == Exponent(d, TRUE)
        IN  e \in {0, -3, -6, -9, -12}
                => ret[1] = Mantissa(d, TRUE) \o UnitFor(e)

\* The digits of a * 10^b, b <= 0, with the decimal point b places from
\* the right and no exponent, for a value of 1 or more.
PlainString(a, b) ==
    LET digs == NatStr(a)
        n == Len(digs)
    IN  IF b = 0 THEN digs
        ELSE SubSeq(digs, 1, n + b) \o <<".">> \o SubSeq(digs, n + b + 1, n)

\* C17: for every rendered exponent, positive ones and ones below -12
\* included, the formatter never looks up the unit table outside its five
\* entries, and for a positive exponent it returns the plain decimal
\* string, without exponent, followed by the unit s.
C17_UnitLookupInRange ==
    (arg.fn = "format" /\ ret # <<>>) =>
        /\ ret[1] # <<"IndexError">>
        /\ Exponent(Normalize(DecimalOf(arg)), TRUE) > 0
             => ret[1] = PlainString(arg.a, arg.b) \o <<"s">>

C17_Witness ==
    /\ arg.fn = "format"
    /\ ret # <<>>
    /\ Exponent(Normalize(DecimalOf(arg)), TRUE) < -12
    /\ ret[1] # <<"IndexError">>

\* How many of the samples are at most v.
CountAtMost(r, v) ==
    RSum([i \in 1..Len(r) |-> <<IF r[i][1] <= v THEN 1 ELSE 0, r[i][2]>>])

\* The k-th smallest of the samples.
KthSmallest(r, k) ==
    CHOOSE v \in RValues(r) :
        /\ CountAtMost(r, v) >= k
        /\ \A w \in RValues(r) : CountAtMost(r, w) >= k => v <= w

\* C15: for a Completed outcome with n samples the report contains the loop
\* count n and the average, and contains the top-3 line if and only if
\* n >= 4; when present, the line lists the three smallest durations of the
\* run in ascending order.
C15_ReportContents ==
    outcome.tag = "Completed"
        => /\ outcome.loops = calls
           /\ outcome.avg = _get_time_spec(RatioDecimal(time_passed, 2 * calls))
           /\ (outcome.best # <<>>) <=> (calls >= 4)
           /\ calls >= 4 =>
                outcome.best = [k \in 1..3 |->
                                  _get_time_spec(SecondsOf(KthSmallest(times, k)))]

C15_Witness ==
    /\ outcome.tag = "Completed"
    /\ outcome.loops >= 4
    /\ Len(outcome.best) = 3
    /\ Len(times) >= 2
    /\ times[1][1] > times[2][1]

\* C18: when two runs of the suspending variant execute concurrently in one
\* process, for every interleaving of their invocations at the await points,
\* once both runs have ended the process's standard output is again the
\* stream that was installed before either run began.
C18_StdoutRestoredAfterBothRuns ==
    (tasks # NoTasks /\ \A r \in Runs : tasks[r].pc = "ended")
        => stdout = "original"

====
